---- MODULE Spec2Model ----
(***************************************************************************)
(* Model of the vector search service of the Freight Payment AI Assistant  *)
(* (src/services/vector_search.py), its TTL cache, and the statistics      *)
(* reporters (get_collection_stats, AnalyticsService.get_analytics).       *)
(*                                                                         *)
(* The coroutines run on one asyncio event loop.  A coroutine gives up the *)
(* loop only at `await asyncio.to_thread(...)` inside _generate_embedding; *)
(* everything between two such points (find_one, the cache lookup, the     *)
(* store aggregate, the cache write) runs without interleaving.  The       *)
(* aggregate is a synchronous pymongo call: while a coroutine is inside it *)
(* the event loop is held, time passes, and no other coroutine runs.       *)
(*                                                                         *)
(* The document store and the embedding provider are external: what they   *)
(* answer is a nondeterministic input of the action that calls them.       *)
(***************************************************************************)
EXTENDS Integers, Sequences, FiniteSets, TLC

(***************************************************************************)
(* Bounds of the model.                                                    *)
(***************************************************************************)
NumTasks == 2          \* concurrent callers of the service
MaxTime == 2           \* the monotonic clock runs 0..MaxTime
MaxTtl == 2            \* settings.cache_ttl is 1 or MaxTtl
MaxLimitArg == 3       \* search is called with limits 0..MaxLimitArg
MaxMaxLimit == 3       \* settings.max_search_limit is MaxMaxLimit - 1 or MaxMaxLimit
MaxDocs == 3           \* count_documents answers 0..MaxDocs
CacheMaxSize == 2      \* TTLCache(maxsize=...): 1000 in the source, scaled
                       \* down so that eviction happens within the bounds
MaxServices == 3       \* at most MaxServices service objects are constructed

Tasks == 1..NumTasks
Texts == {"a", "b"}
Models == {"voyage-3-large", "voyage-3"}
DocIds == {"d1", "d2", "d3"}
CallerDocIds == {"d1", "d3"}
InitiallyIndexed == {"d1", "d2"}

Min(x, y) == IF x < y THEN x ELSE y

(***************************************************************************)
(* Settings (src/config.py).  Only the fields the service reads.           *)
(***************************************************************************)
\* The configurations of the model: the time-to-live, the maximum limit, the
\* number of candidates (above and below the maximum limit) and the API key
\* (given or empty) all vary.
Cfg(ttl, max_limit, candidates, api_key) ==
  [ cache_ttl |-> ttl, default_search_limit |-> 2,
    max_search_limit |-> max_limit, vector_search_candidates |-> candidates,
    voyage_model |-> "voyage-3-large", voyage_api_key |-> api_key ]

SettingsSet ==
  { Cfg(1, MaxMaxLimit - 1, 4, "key"), Cfg(MaxTtl, MaxMaxLimit, 2, "key"),
    Cfg(1, MaxMaxLimit - 1, 4, "") }

VARIABLES
  settings,      \* self.settings
  service,       \* how many VectorSearchService objects have been constructed;
                 \* voyage_client and cache are those of the latest one
  voyage_client, \* self.voyage_client: "None" or "client"
  cache,         \* self.cache: the TTLCache, as the sequence of its links in
                 \* the order of the OrderedDict __links (head = least
                 \* recently used)
  now,           \* time.monotonic(), the timer of the TTLCache
  task,          \* one record per caller: the coroutine's locals and position
  indexed,       \* the ids of the stored documents that carry an embedding
  stats          \* the value get_collection_stats / get_analytics returned last

vars == <<settings, service, voyage_client, cache, now, task, indexed, stats>>


(***************************************************************************)
(* The cache key (_generate_cache_key).                                    *)
(***************************************************************************)
\* Mutant of json_dumps_sorted: the model identifier is left out of the key.
json_dumps_without_model(query, limit, model) ==
  <<"limit", limit, "query", query>>

\* json.dumps(key_data, sort_keys=True): the fields in the order of their
\* names, "limit" < "model" < "query", each name followed by its value.
json_dumps_sorted(query, limit, model) ==
  <<"limit", limit, "model", model, "query", query>>

\* hashlib.md5(...).hexdigest(): a digest of the whole serialised string,
\* taken to be collision free on the inputs of the model.
md5_hexdigest(key_string) == <<"md5", key_string>>

generate_cache_key(s, query, limit) ==
  md5_hexdigest(json_dumps_sorted(query, limit, s.voyage_model))

(***************************************************************************)
(* cachetools.TTLCache(maxsize, ttl) as the service uses it.  A link is    *)
(* [key, value, expires]; `at` is a history field, the time of the write.  *)
(* All links carry the same ttl and the timer is monotonic, so the links   *)
(* that expire(time) removes are exactly those with expires <= time.       *)
(***************************************************************************)
HasKey(c, k) == \E i \in 1..Len(c) : c[i].key = k
Link(c, k) == c[CHOOSE i \in 1..Len(c) : c[i].key = k]

\* TTLCache.expire(time)
Expire(c, time) == LET live(e) == time < e.expires IN SelectSeq(c, live)

\* TTLCache.__contains__: `cache_key in self.cache`; reorders nothing
Contains(c, k, time) == HasKey(c, k) /\ time < Link(c, k).expires

\* TTLCache.__getitem__: `self.cache[cache_key]`.  __getlink moves the link
\* to the end of __links before the expiry test; an expired or absent key
\* ends in __missing__, which raises KeyError.
GetItem(c, k, time) ==
  IF ~HasKey(c, k) THEN [found |-> FALSE, value |-> <<>>, cache |-> c]
  ELSE LET e == Link(c, k)
           other(x) == x.key # k
           moved == SelectSeq(c, other) \o <<e>>
       IN [found |-> time < e.expires, value |-> e.value, cache |-> moved]

\* Mutant of Expires: a link lives one time unit longer than the ttl.
Expires_OneTooLate(s, time) == time + s.cache_ttl + 1

\* expires of a link written at `time`
Expires(s, time) == time + s.cache_ttl

\* Mutant of SetItem: the link is written with the last result missing.
SetItem_Partial(s, c, k, v, time) ==
  LET other(x) == x.key # k
  IN SelectSeq(Expire(c, time), other)
     \o <<[key |-> k, value |-> SubSeq(v, 1, Len(v) - 1),
           expires |-> time + s.cache_ttl, at |-> time]>>

\* Mutant of SetItem: the results are not stored.
SetItem_NotStored(s, c, k, v, time) == Expire(c, time)

\* TTLCache.__setitem__: `self.cache[cache_key] = results`.  expire(time),
\* then Cache.__setitem__ (popitem while the cache is full and the key is
\* new; popitem drops the head of __links), then the link is (re)created at
\* the end with expires = time + ttl.
SetItem(s, c, k, v, time) ==
  LET c1 == Expire(c, time)
      other(x) == x.key # k
      c2 == IF HasKey(c1, k) THEN SelectSeq(c1, other)
            ELSE IF Len(c1) + 1 > CacheMaxSize
                 THEN SubSeq(c1, Len(c1) + 2 - CacheMaxSize, Len(c1))
                 ELSE c1
  IN c2 \o <<[key |-> k, value |-> v, expires |-> Expires(s, time), at |-> time]>>

\* TTLCache.__len__: `len(self.cache)` expires first
CacheLen(c, time) == Len(Expire(c, time))

(***************************************************************************)
(* The external document store.                                            *)
(***************************************************************************)
\* The order in which the vector index ranks the documents for a query text.
Ranking(query) ==
  IF query = "a" THEN <<"d1", "d2", "d3">> ELSE <<"d3", "d1", "d2">>

Item(i) == [id |-> i]

\* The records `collection.aggregate(pipeline)` returns for a $vectorSearch
\* stage with the given limit: the first `limit` of the ranked documents
\* that carry an embedding.
Aggregate(docs, query, limit) ==
  LET has(i) == i \in docs
      ranked == SelectSeq(Ranking(query), has)
  IN [i \in 1..Min(limit, Len(ranked)) |-> Item(ranked[i])]

\* $vectorSearch rejects a limit below 1 or above numCandidates.
StoreAccepts(numCandidates, limit) == limit >= 1 /\ limit <= numCandidates

\* The shapes of a stored document along event.eventData.subTypeData.reason.
\* A level is "absent", "null" (present, None) or "dict"; the reason is
\* "absent", "null", the empty string or a text.
Documents ==
  LET doc(e, d, s, r) ==
        [event |-> e, eventData |-> d, subTypeData |-> s, reason |-> r]
  IN  { doc(e, "absent", "absent", "absent") : e \in {"absent", "null"} }
      \cup { doc("dict", d, "absent", "absent") : d \in {"absent", "null"} }
      \cup { doc("dict", "dict", s, "absent") : s \in {"absent", "null"} }
      \cup { doc("dict", "dict", "dict", r) :
               r \in {"absent", "null", "", "a"} }

\* Mutant of DictGet: no default, an absent key gives None.
DictGet_NoDefault(holder, value) ==
  IF holder = "emptydict" \/ value = "absent" THEN "null" ELSE value

\* document.get("event", {}).get("eventData", {}).get("subTypeData", {})
\*         .get("reason", "")
\* dict.get returns the default only for an absent key; .get on None raises
\* AttributeError.
DictGet(holder, value) ==
  IF holder = "emptydict" \/ value = "absent" THEN "emptydict" ELSE value

ExtractReason(document) ==
  LET event == DictGet("dict", document.event)
      eventData == DictGet(event, document.eventData)
      subTypeData == DictGet(eventData, document.subTypeData)
  IN IF "null" \in {event, eventData, subTypeData}
     THEN [raises |-> TRUE, reason |-> ""]
     ELSE [raises |-> FALSE,
           reason |-> IF subTypeData = "emptydict" \/ document.reason = "absent"
                      THEN "" ELSE document.reason]

\* `not reason`: None and the empty string are falsy
Falsy(reason) == reason \in {"", "null"}

(***************************************************************************)
(* Callers.                                                                *)
(***************************************************************************)
NoOutcome == [kind |-> "none", results |-> <<>>, exc |-> "", msg |-> ""]
Returned(results) ==
  [kind |-> "ok", results |-> results, exc |-> "", msg |-> ""]
Raised(exc, msg) ==
  [kind |-> "error", results |-> <<>>, exc |-> exc, msg |-> msg]

\* pc: "idle", "embedding" (suspended in await asyncio.to_thread), "querying"
\* (inside the synchronous collection.aggregate, holding the event loop) or
\* "done" (the call has just returned or raised; `outcome` is what the
\* caller got).
\* A done record is kept until the next step of the service, so at most one
\* task is done: the one whose call ended last.
\* The fields from `lookup` on are history fields of the current call:
\* lookup and document are what find_one answered ("none": not asked, "None",
\* "raised", "found"), hit says the call was served from the cache and age
\* how old the served link was, embedLog and storeLog list the outbound calls
\* with their responses, writes counts the cache writes, dirty says another
\* call wrote this call's key while it was suspended.
NoDocument ==
  [event |-> "absent", eventData |-> "absent", subTypeData |-> "absent",
   reason |-> "absent"]

IdleTask ==
  [ pc |-> "idle", op |-> "search", given |-> FALSE, query |-> "a",
    limit |-> 0, document_id |-> "", search_limit |-> 0, cache_key |-> <<>>,
    outcome |-> NoOutcome, lookup |-> "none", document |-> NoDocument,
    hit |-> FALSE, age |-> 0, embedLog |-> <<>>, storeLog |-> <<>>,
    writes |-> 0, dirty |-> FALSE ]

NewCall(op) == [IdleTask EXCEPT !.op = op]

\* the records of the calls that ended earlier are dropped
Retire(tasks) ==
  [u \in DOMAIN tasks |-> IF tasks[u].pc = "done" THEN IdleTask ELSE tasks[u]]

\* filtered_results[:limit]
PySlice(seq, limit) ==
  IF limit >= 0 THEN SubSeq(seq, 1, Min(limit, Len(seq)))
  ELSE SubSeq(seq, 1, Len(seq) + limit)

\* Mutant of NotOrigin: the origin document is not filtered out.
NotOrigin_KeepsAll(document_id, r) == TRUE

\* str(r.get("_id")) != document_id  (the ids of the model are strings)
NotOrigin(document_id, r) == r.id # document_id

\* lines 160-163 of find_similar_by_id
FilterSimilar(results, document_id, limit) ==
  LET keep(r) == NotOrigin(document_id, r)
  IN PySlice(SelectSeq(results, keep), limit)

\* Mutant of ListAfterFilter: the list is filtered and cut in place.
ListAfterFilter_InPlace(results, document_id, limit) ==
  FilterSimilar(results, document_id, limit)

\* The list find_similar_by_id got from search, after lines 160-163.  The
\* comprehension and the slice each build a new list; the list they read,
\* which is the list object the cache holds, is left as it is.
ListAfterFilter(results, document_id, limit) == results

\* The cache once the call of tr has returned: search returns the list object
\* the link of its key holds (lines 90 and 133-135), so what the caller does
\* to the list it got is done to the link.
CacheAfterReturn(c, tr) ==
  IF tr.op = "find_similar_by_id"
  THEN [i \in 1..Len(c) |->
          IF c[i].key = tr.cache_key
          THEN [c[i] EXCEPT
                  !.value = ListAfterFilter(@, tr.document_id, tr.limit)]
          ELSE c[i]]
  ELSE c

\* search returns `results`; find_similar_by_id goes on to filter them.
Return(tr, results) ==
  [tr EXCEPT !.pc = "done",
     !.outcome = IF tr.op = "search" THEN Returned(results)
                 ELSE Returned(FilterSimilar(results, tr.document_id, tr.limit))]

\* every except clause of the service re-raises the exception it caught
Raise(tr, exc, msg) == [tr EXCEPT !.pc = "done", !.outcome = Raised(exc, msg)]

\* voyage_client.embed(texts=[text], model=..., input_type="query"); the
\* response is "pending", "vector", "empty" (no embedding) or "raised".  A
\* store query is logged likewise: "pending", "returned" or "raised".
EmbedCall(s, text) ==
  [texts |-> <<text>>, model |-> s.voyage_model, input_type |-> "query",
   response |-> "pending"]

Responded(log, response) == [log EXCEPT ![Len(log)].response = response]

\* Mutant of VectorSearchStage: the limit is not clamped to the maximum.
VectorSearchStage_Unclamped(s, limit) ==
  [index |-> "default", path |-> "Reason_Embedded",
   numCandidates |-> s.vector_search_candidates,
   limit |-> limit]

\* the $vectorSearch stage built in lines 97-106
VectorSearchStage(s, limit) ==
  [index |-> "default", path |-> "Reason_Embedded",
   numCandidates |-> s.vector_search_candidates,
   limit |-> Min(limit, s.max_search_limit)]

\* search, lines 83-94, up to the first suspension: the cache lookup, and on
\* a miss the entry into _generate_embedding.  The presence test reads the
\* timer at `now`, the read of the value at `now + d`.
\* `c` and `client` are self.cache and self.voyage_client of the service the
\* call runs on.
SearchStartOn(c, client, tr, query, limit, d) ==
  LET key == generate_cache_key(settings, query, limit)
      tr1 == [tr EXCEPT !.query = query, !.search_limit = limit,
                        !.cache_key = key]
  IN IF Contains(c, key, now)
     THEN LET g == GetItem(c, key, now + d)
          IN [cache |-> IF g.found THEN CacheAfterReturn(g.cache, tr1)
                        ELSE g.cache,
              now |-> now + d,
              task |-> IF g.found
                       THEN Return([tr1 EXCEPT !.hit = TRUE,
                                      !.age = now + d - Link(c, key).at],
                                   g.value)
                       ELSE Raise(tr1, "KeyError", "cache_key")]
     ELSE [cache |-> c, now |-> now,
           task |-> IF client = "None"
                    THEN Raise(tr1, "ValueError",
                               "VoyageAI client not initialized")
                    ELSE [tr1 EXCEPT !.pc = "embedding",
                            !.embedLog = <<EmbedCall(settings, query)>>]]

\* a call on the service the model holds
SearchStart(tr, query, limit, d) ==
  SearchStartOn(cache, voyage_client, tr, query, limit, d)

(***************************************************************************)
(* Initial state: the service after __init__ and _initialize_connections.  *)
(***************************************************************************)
NoStats ==
  [op |-> "none", total_documents |-> 0, embedded_documents |-> 0,
   embedding_percentage |-> 0, cache_size |-> 0]

\* _initialize_connections, lines 42-45: a client only for a truthy API key
InitializedClient(s) == IF s.voyage_api_key # "" THEN "client" ELSE "None"

Init ==
  /\ settings \in SettingsSet
  /\ service = 1
  /\ voyage_client = InitializedClient(settings)
  /\ cache = <<>>
  /\ now = 0
  /\ task = [t \in Tasks |-> IdleTask]
  /\ indexed = InitiallyIndexed
  /\ stats = NoStats

\* the event loop is free: no coroutine is inside a synchronous store query
LoopFree == \A u \in Tasks : task[u].pc # "querying"

\* the event loop can start a call for caller t
CanCall(t) == LoopFree /\ task[t].pc \in {"idle", "done"}

Begin(t, d, segment) ==
  \E r \in {segment} :
  /\ r.now = now + d
  /\ cache' = r.cache
  /\ now' = r.now
  /\ task' = [Retire(task) EXCEPT ![t] = r.task]
  /\ UNCHANGED <<settings, service, voyage_client, indexed, stats>>

(***************************************************************************)
(* search(query, limit), lines 81-94: from the call to the first           *)
(* suspension or to the return from the cache.                             *)
(***************************************************************************)
search(t, query, given, limit_arg, d) ==
  /\ CanCall(t)
  /\ now + d <= MaxTime
  /\ LET limit == IF given THEN limit_arg ELSE settings.default_search_limit
         tr == [NewCall("search") EXCEPT !.given = given,
                                                  !.limit = limit]
     IN Begin(t, d, SearchStart(tr, query, limit, d))

(***************************************************************************)
(* POST /api/search (src/app.py, search_events).  The dependency           *)
(* get_vector_search_service constructs a VectorSearchService for the      *)
(* request, and the handler calls search on it.  The model holds one       *)
(* service at a time: a request is handled when no other call is in        *)
(* flight.  SearchQuery validates the limit (ge=1, le=100).                *)
(***************************************************************************)
search_events(t, query, limit) ==
  /\ CanCall(t)
  /\ \A u \in Tasks : task[u].pc \in {"idle", "done"}
  /\ service < MaxServices
  /\ limit >= 1
  /\ service' = service + 1
  /\ voyage_client' = InitializedClient(settings)
  /\ LET tr == [NewCall("search") EXCEPT !.given = TRUE, !.limit = limit]
         r == SearchStartOn(<<>>, InitializedClient(settings), tr, query,
                            limit, 0)
     IN /\ cache' = r.cache
        /\ now' = r.now
        /\ task' = [Retire(task) EXCEPT ![t] = r.task]
  /\ UNCHANGED <<settings, indexed, stats>>

(***************************************************************************)
(* find_similar_by_id(document_id, limit), lines 144-158.                  *)
(***************************************************************************)
\* Mutant of find_similar_not_found: a missing document is searched for as
\* if its reason were "a".
find_similar_not_found_searches(t, document_id, limit) ==
  /\ CanCall(t)
  /\ LET tr == [NewCall("find_similar_by_id") EXCEPT
                  !.document_id = document_id, !.limit = limit,
                  !.lookup = "None"]
     IN \E r \in {SearchStart(tr, "a", limit + 1, 0)} :
          /\ cache' = r.cache
          /\ now' = r.now
          /\ task' = [Retire(task) EXCEPT ![t] = r.task]
          /\ UNCHANGED <<settings, service, voyage_client, indexed, stats>>

\* find_one returns None
find_similar_not_found(t, document_id, limit) ==
  /\ CanCall(t)
  /\ LET tr == [NewCall("find_similar_by_id") EXCEPT
                  !.document_id = document_id, !.limit = limit,
                  !.lookup = "None"]
     IN Begin(t, 0, [cache |-> cache, now |-> now,
                  task |-> Raise(tr, "ValueError", "Document not found")])

\* find_one raises
find_similar_store_raises(t, document_id, limit) ==
  /\ CanCall(t)
  /\ LET tr == [NewCall("find_similar_by_id") EXCEPT
                  !.document_id = document_id, !.limit = limit,
                  !.lookup = "raised"]
     IN Begin(t, 0, [cache |-> cache, now |-> now,
                  task |-> Raise(tr, "PyMongoError", "find_one failed")])

\* find_one returns a document
find_similar_by_id(t, document_id, limit, document, d) ==
  /\ CanCall(t)
  /\ now + d <= MaxTime
  /\ LET tr == [NewCall("find_similar_by_id") EXCEPT
                  !.document_id = document_id, !.limit = limit,
                  !.lookup = "found", !.document = document]
         x == ExtractReason(document)
     IN /\ d = 0 \/ ~(x.raises \/ Falsy(x.reason))
        /\ Begin(t, d,
          IF x.raises
          THEN [cache |-> cache, now |-> now,
                task |-> Raise(tr, "AttributeError",
                               "'NoneType' object has no attribute 'get'")]
          ELSE IF Falsy(x.reason)
          THEN [cache |-> cache, now |-> now,
                task |-> Raise(tr, "ValueError",
                               "No reason found in document")]
          ELSE SearchStart(tr, x.reason, limit + 1, d))

(***************************************************************************)
(* The embedding call ends (lines 69-79) and search runs on to its end     *)
(* (lines 96-142); find_similar_by_id then runs lines 160-163.             *)
(***************************************************************************)
\* the event loop can resume t, which is suspended in the embedding call
Suspended(t) == LoopFree /\ task[t].pc = "embedding"

\* t is inside collection.aggregate
Querying(t) == task[t].pc = "querying"

\* Mutant of embed_fails: the failure is cached as an empty result.
embed_fails_cached(t, response) ==
  /\ Suspended(t)
  /\ LET tr == [task[t] EXCEPT !.embedLog = Responded(@, response),
                               !.writes = @ + 1]
         exc == IF response = "raised" THEN "VoyageError" ELSE "IndexError"
     IN /\ task' = [Retire(task) EXCEPT ![t] = Raise(tr, exc, "embed failed")]
        /\ cache' = SetItem(settings, cache, tr.cache_key, <<>>, now)
  /\ UNCHANGED <<settings, service, voyage_client, now, indexed, stats>>

\* voyage_client.embed raises ("raised"), or returns no embedding ("empty":
\* result.embeddings[0] raises IndexError)
embed_fails(t, response) ==
  /\ Suspended(t)
  /\ LET tr == [task[t] EXCEPT !.embedLog = Responded(@, response)]
         exc == IF response = "raised" THEN "VoyageError" ELSE "IndexError"
     IN task' = [Retire(task) EXCEPT ![t] = Raise(tr, exc, "embed failed")]
  /\ UNCHANGED <<settings, service, voyage_client, cache, now, indexed, stats>>

\* one query of the store: the $vectorSearch stage and how the store answered
StoreQuery(stage, response) == [stage |-> stage, response |-> response]

\* voyage_client.embed returns a vector (lines 69-76); search builds the
\* pipeline (97-121) and calls collection.aggregate (125), which does not
\* return before the store has answered
embed_returns(t) ==
  /\ Suspended(t)
  /\ LET stage == VectorSearchStage(settings, task[t].search_limit)
     IN task' = [Retire(task) EXCEPT ![t] =
                   [task[t] EXCEPT
                      !.pc = "querying",
                      !.embedLog = Responded(@, "vector"),
                      !.storeLog = Append(@, StoreQuery(stage, "pending"))]]
  /\ UNCHANGED <<settings, service, voyage_client, cache, now, indexed, stats>>

\* Mutant of aggregate_raises: the failure is swallowed into an empty
\* result.
aggregate_raises_swallowed(t) ==
  /\ Querying(t)
  /\ LET tr == [task[t] EXCEPT !.storeLog = Responded(@, "raised")]
     IN task' = [task EXCEPT ![t] = Return(tr, <<>>)]
  /\ UNCHANGED <<settings, service, voyage_client, cache, now, indexed, stats>>

\* collection.aggregate raises
aggregate_raises(t) ==
  /\ Querying(t)
  /\ LET tr == [task[t] EXCEPT !.storeLog = Responded(@, "raised")]
     IN task' = [task EXCEPT ![t] =
                   Raise(tr, "PyMongoError", "aggregate failed")]
  /\ UNCHANGED <<settings, service, voyage_client, cache, now, indexed, stats>>

\* collection.aggregate returns `results`: they are cached and returned
aggregate_returns(t) ==
  /\ Querying(t)
  /\ LET tr == task[t]
         stage == tr.storeLog[Len(tr.storeLog)].stage
         results == Aggregate(indexed, tr.query, stage.limit)
     IN /\ StoreAccepts(stage.numCandidates, stage.limit)
        /\ cache' = CacheAfterReturn(
                      SetItem(settings, cache, tr.cache_key, results, now), tr)
        /\ task' = [u \in Tasks |->
             IF u = t
             THEN Return([tr EXCEPT
                            !.storeLog = Responded(@, "returned"),
                            !.writes = @ + 1],
                         results)
             ELSE IF task[u].pc = "embedding" /\ task[u].cache_key = tr.cache_key
                  THEN [task[u] EXCEPT !.dirty = TRUE]
                  ELSE task[u]]
  /\ UNCHANGED <<settings, service, voyage_client, now, indexed, stats>>

(***************************************************************************)
(* The statistics reporters.  embedding_percentage is held in hundredths,  *)
(* the unit round(..., 2) rounds to.                                       *)
(***************************************************************************)
\* Mutant of Round2: the value is cut after two decimals, not rounded.
Round2_Truncated(num, den) == (10000 * num) \div den

\* round(x, 2) for x = num / den * 100, in hundredths: the nearest integer
\* to 10000 * num / den, a tie going to the even one
Round2(num, den) ==
  LET q == (10000 * num) \div den
      r == (10000 * num) % den
  IN IF 2 * r < den THEN q
     ELSE IF 2 * r > den THEN q + 1
     ELSE IF q % 2 = 0 THEN q ELSE q + 1

\* round((embedded_docs / total_docs) * 100, 2) if total_docs > 0 else 0
EmbeddingPercentage(embedded_docs, total_docs) ==
  IF total_docs > 0 THEN Round2(embedded_docs, total_docs) ELSE 0

get_collection_stats(total_docs, embedded_docs) ==
  /\ stats' = [op |-> "get_collection_stats",
               total_documents |-> total_docs,
               embedded_documents |-> embedded_docs,
               embedding_percentage |->
                 EmbeddingPercentage(embedded_docs, total_docs),
               cache_size |-> CacheLen(cache, now)]
  /\ cache' = Expire(cache, now)
  /\ UNCHANGED <<settings, service, voyage_client, now, task, indexed>>

get_analytics(total_docs, embedded_docs) ==
  /\ stats' = [op |-> "get_analytics",
               total_documents |-> total_docs,
               embedded_documents |-> embedded_docs,
               embedding_percentage |->
                 EmbeddingPercentage(embedded_docs, total_docs),
               cache_size |-> 0]
  /\ UNCHANGED <<settings, service, voyage_client, cache, now, task, indexed>>

\* a stored document gets its embedding
IndexDocument(id) ==
  /\ id \notin indexed
  /\ indexed' = indexed \cup {id}
  /\ UNCHANGED <<settings, service, voyage_client, cache, now, task, stats>>

\* time.monotonic() advances
Tick ==
  /\ now < MaxTime
  /\ now' = now + 1
  /\ UNCHANGED <<settings, service, voyage_client, cache, task, indexed, stats>>

\* The limits callers pass.  search is called with 0..MaxLimitArg, and
\* find_similar_by_id, which searches with limit + 1, with one less.
LimitArgs == 0..MaxLimitArg
SimilarLimitArgs == -1..(MaxLimitArg - 1)

(***************************************************************************)
(* Specifications.  SearchSteps and SimilarSteps are the steps of the      *)
(* callers T, with query texts Q, document ids D and limits L.             *)
(***************************************************************************)
SearchSteps(T, Q, L) ==
  \/ \E t \in T, q \in Q, given \in BOOLEAN, d \in 0..1 :
        \E l \in IF given THEN L ELSE {0} : search(t, q, given, l, d)
  \/ \E t \in T, response \in {"raised", "empty"} : embed_fails(t, response)
  \/ \E t \in T : embed_returns(t)
  \/ \E t \in T : aggregate_raises(t)
  \/ \E t \in T : aggregate_returns(t)

\* A lookup that ends before search is called does not read the limit: it is
\* tried with one limit only.
HasReason(doc) ==
  ~ExtractReason(doc).raises /\ ~Falsy(ExtractReason(doc).reason)

SimilarSteps(T, D, L) ==
  \/ \E t \in T, id \in D : find_similar_not_found(t, id, 1)
  \/ \E t \in T, id \in D : find_similar_store_raises(t, id, 1)
  \/ \E t \in T, id \in D, doc \in Documents, d \in 0..1 :
        \E l \in IF HasReason(doc) THEN L ELSE {1} :
           find_similar_by_id(t, id, l, doc, d)

StatsSteps ==
  \/ \E total \in 0..MaxDocs, embedded \in 0..MaxDocs :
        get_collection_stats(total, embedded)
  \/ \E total \in 0..MaxDocs, embedded \in 0..MaxDocs :
        get_analytics(total, embedded)

\* One caller at a time, every input.
Next ==
  \/ SearchSteps({1}, Texts, LimitArgs)
  \/ SimilarSteps({1}, CallerDocIds, SimilarLimitArgs)
  \/ \E id \in DocIds : IndexDocument(id)
  \/ Tick

Spec == Init /\ [][Next]_vars

\* Concurrent callers, searching only, for two texts.
NextConc ==
  \/ SearchSteps(Tasks, Texts, {1})
  \/ Tick

SpecConc == Init /\ [][NextConc]_vars

\* The process of src/app.py before its first request: no service has been
\* constructed.
InitApp ==
  /\ settings \in SettingsSet
  /\ service = 0
  /\ voyage_client = "None"
  /\ cache = <<>>
  /\ now = 0
  /\ task = [t \in Tasks |-> IdleTask]
  /\ indexed = InitiallyIndexed
  /\ stats = NoStats

\* Requests to POST /api/search, one at a time.
NextApp ==
  \/ \E q \in Texts, l \in 1..MaxLimitArg : search_events(1, q, l)
  \/ \E response \in {"raised", "empty"} : embed_fails(1, response)
  \/ embed_returns(1)
  \/ aggregate_raises(1)
  \/ aggregate_returns(1)
  \/ Tick

SpecApp == InitApp /\ [][NextApp]_vars

\* The statistics reporters, next to one caller searching for one text.
NextStats ==
  \/ StatsSteps
  \/ SearchSteps({1}, {"a"}, {})
  \/ Tick

SpecStats == Init /\ [][NextStats]_vars

(***************************************************************************)
(* Properties.                                                             *)
(***************************************************************************)
\* task u begins a call in this step
BeginsCall(u) ==
  /\ task[u].pc \in {"idle", "done"}
  /\ task'[u].pc # "idle"
  /\ task'[u] # task[u]

\* the record of task t changes in this step and its call is over after it
EndsCall(t) == task'[t] # task[t] /\ task'[t].pc = "done"

\* the limit search works with: the caller's, the default when none is given,
\* limit + 1 when find_similar_by_id calls
LimitOf(tr) ==
  IF tr.op = "find_similar_by_id" THEN tr.limit + 1
  ELSE IF tr.given THEN tr.limit ELSE settings.default_search_limit

\* C1: when a successful search(text, limit) that missed the cache is followed
\* directly by a search with the same text and limit, the link the first call
\* wrote is in the cache with the sequence the first call returned, and as
\* long as that link is within its time-to-live the second call is a cache
\* hit: it returns that same sequence and makes no embedding call and no
\* store query, so that the two calls together make at most one of each.
C1_SecondSearchIsCacheHit ==
  [][\A t, u \in Tasks :
       ( /\ task[t].pc = "done" /\ task[t].op = "search"
         /\ task[t].outcome.kind = "ok" /\ ~task[t].hit
         /\ BeginsCall(u) /\ task'[u].op = "search"
         /\ task'[u].query = task[t].query
         /\ task'[u].search_limit = task[t].search_limit )
       => /\ Len(task[t].embedLog) <= 1 /\ Len(task[t].storeLog) <= 1
          /\ HasKey(cache, task[t].cache_key)
          /\ Link(cache, task[t].cache_key).value = task[t].outcome.results
          /\ now' - Link(cache, task[t].cache_key).at < settings.cache_ttl
             => /\ task'[u].pc = "done" /\ task'[u].hit
                /\ task'[u].outcome = task[t].outcome
                /\ task'[u].embedLog = <<>> /\ task'[u].storeLog = <<>>
                /\ task'[u].writes = 0
    ]_vars

\* C1 witness: a search has been served from the cache, one time unit after
\* the link was written, with a sequence that is not empty
C1_Witness ==
  \E t \in Tasks :
    /\ task[t].pc = "done" /\ task[t].op = "search" /\ task[t].hit
    /\ task[t].outcome.kind = "ok" /\ Len(task[t].outcome.results) >= 1
    /\ task[t].age >= 1

\* C2: when the embedding call of a search fails (the provider raises or
\* returns no embedding, or no client is configured), the search ends with
\* that error, has issued no store query and has written nothing to the
\* cache, and the cache is as it was.
C2_EmbeddingFailureIsolated ==
  [][\A t \in Tasks :
       LET tr == task'[t]
           response == IF tr.embedLog = <<>> THEN "none"
                       ELSE tr.embedLog[Len(tr.embedLog)].response
       IN ( /\ EndsCall(t)
            /\ \/ response \in {"raised", "empty"}
               \/ voyage_client = "None" /\ tr.cache_key # <<>> )
          => /\ tr.outcome.kind = "error"
             /\ tr.outcome.exc = IF response = "raised" THEN "VoyageError"
                                 ELSE IF response = "empty" THEN "IndexError"
                                 ELSE "ValueError"
             /\ response = "none"
                  => tr.outcome.msg = "VoyageAI client not initialized"
             /\ tr.storeLog = <<>>
             /\ tr.writes = 0
             /\ cache' = cache
    ]_vars

\* C2 witness: the provider has raised during a search while the cache holds
\* a link
C2_Witness ==
  \E t \in Tasks :
    /\ task[t].pc = "done" /\ task[t].embedLog # <<>>
    /\ task[t].embedLog[1].response = "raised"
    /\ task[t].outcome.exc = "VoyageError"
    /\ cache # <<>>

\* C3: when the store query of a search fails, the search ends with the
\* store's error and no result sequence, writes nothing to the cache and
\* leaves it as it was; a search for the same key that follows directly
\* (no other call having written the key meanwhile) misses the cache and
\* goes to the embedding provider again.
C3_StoreFailureSurfaces ==
  [][/\ \A t \in Tasks :
          LET tr == task'[t]
          IN ( /\ EndsCall(t) /\ tr.storeLog # <<>>
               /\ tr.storeLog[Len(tr.storeLog)].response = "raised" )
             => /\ tr.outcome = Raised("PyMongoError", "aggregate failed")
                /\ tr.writes = 0
                /\ cache' = cache
     /\ \A t, u \in Tasks :
          ( /\ task[t].pc = "done" /\ task[t].storeLog # <<>>
            /\ task[t].storeLog[Len(task[t].storeLog)].response = "raised"
            /\ ~task[t].dirty
            /\ BeginsCall(u) /\ task'[u].cache_key = task[t].cache_key )
          => /\ ~task'[u].hit
             /\ task'[u].pc = "embedding"
             /\ Len(task'[u].embedLog) = 1
    ]_vars

\* C3 witness: the store has raised during a search while the cache holds a
\* link
C3_Witness ==
  \E t \in Tasks :
    /\ task[t].pc = "done" /\ task[t].storeLog # <<>>
    /\ task[t].storeLog[1].response = "raised"
    /\ task[t].outcome.exc = "PyMongoError"
    /\ cache # <<>>

\* C4: the sequence find_similar_by_id(document_id, limit) returns holds no
\* item with the id document_id and at most limit items.
C4_SimilarExcludesOriginAndKeepsLimit ==
  \A t \in Tasks :
    ( task[t].pc = "done" /\ task[t].op = "find_similar_by_id"
      /\ task[t].outcome.kind = "ok" )
    => /\ \A i \in 1..Len(task[t].outcome.results) :
            task[t].outcome.results[i].id # task[t].document_id
       /\ Len(task[t].outcome.results) <= task[t].limit

\* C4 witness: find_similar_by_id has returned limit items where the search
\* it made returned limit + 1 items, none of them the origin document
C4_Witness ==
  \E t \in Tasks :
    /\ task[t].pc = "done" /\ task[t].op = "find_similar_by_id"
    /\ task[t].outcome.kind = "ok" /\ task[t].limit >= 1
    /\ Len(task[t].outcome.results) = task[t].limit
    /\ HasKey(cache, task[t].cache_key)
    /\ LET found == Link(cache, task[t].cache_key).value
       IN /\ Len(found) = task[t].limit + 1
          /\ \A i \in 1..Len(found) : found[i].id # task[t].document_id

\* C5: when find_one finds no document, find_similar_by_id ends with the
\* "not found" ValueError, has made no embedding call and no store query,
\* has not entered search, and leaves the cache as it was.
C5_NotFoundMakesNoCall ==
  [][\A t \in Tasks :
       (task'[t] # task[t] /\ task'[t].lookup = "None")
       => /\ task'[t].pc = "done"
          /\ task'[t].outcome = Raised("ValueError", "Document not found")
          /\ task'[t].embedLog = <<>> /\ task'[t].storeLog = <<>>
          /\ task'[t].cache_key = <<>> /\ ~task'[t].hit
          /\ cache' = cache
    ]_vars

\* C5 witness: a lookup has found no document while the cache holds a link
C5_Witness ==
  \E t \in Tasks :
    /\ task[t].pc = "done" /\ task[t].lookup = "None" /\ cache # <<>>

\* the reason field is absent at some level of the nesting (the levels above
\* it being mappings), or is the empty string
ReasonAbsentOrEmpty(doc) ==
  \/ doc.event = "absent"
  \/ doc.event = "dict" /\ doc.eventData = "absent"
  \/ doc.event = "dict" /\ doc.eventData = "dict" /\ doc.subTypeData = "absent"
  \/ /\ doc.event = "dict" /\ doc.eventData = "dict"
     /\ doc.subTypeData = "dict" /\ doc.reason \in {"absent", ""}

\* C6: when the document is found and its reason is absent at some level or
\* empty, find_similar_by_id ends with the "no reason" ValueError and has not
\* called search: no cache lookup, no embedding call, no store query.
C6_NoReasonMakesNoCall ==
  \A t \in Tasks :
    ( task[t].op = "find_similar_by_id" /\ task[t].lookup = "found"
      /\ ReasonAbsentOrEmpty(task[t].document) )
    => /\ task[t].pc = "done"
       /\ task[t].outcome = Raised("ValueError", "No reason found in document")
       /\ task[t].embedLog = <<>> /\ task[t].storeLog = <<>>
       /\ task[t].cache_key = <<>> /\ ~task[t].hit /\ task[t].writes = 0

\* C6 witness: the document found has event.eventData but no subTypeData
C6_Witness ==
  \E t \in Tasks :
    /\ task[t].pc = "done" /\ task[t].lookup = "found"
    /\ task[t].document.eventData = "dict"
    /\ task[t].document.subTypeData = "absent"
    /\ task[t].outcome.kind = "error"

\* C7: the key a search computed is the key of exactly one (text, limit,
\* model): computing the key for any text, limit and model gives that key
\* again if all three are the ones of the search, and another key if any of
\* them differs.
C7_CacheKeyDistinguishesInputs ==
  \A t \in Tasks :
    task[t].cache_key # <<>>
    => \A q \in Texts, l \in LimitArgs, m \in Models :
         (generate_cache_key([settings EXCEPT !.voyage_model = m], q, l)
            = task[t].cache_key)
         <=> ( q = task[t].query /\ l = task[t].search_limit
               /\ m = settings.voyage_model )

\* C7 witness: the cache holds two links whose keys were computed for the
\* same text and two limits
C7_Witness ==
  /\ Len(cache) = 2
  /\ \E t \in Tasks :
       /\ task[t].pc = "done" /\ task[t].cache_key = cache[2].key
       /\ \E l \in LimitArgs :
            /\ l # task[t].search_limit
            /\ cache[1].key = generate_cache_key(settings, task[t].query, l)

\* C8: a call makes at most one embedding call and at most one store query;
\* a search that missed the cache and returned has made exactly one
\* embedding call, with the query text, and exactly one store query, whose
\* numCandidates is the configured constant and whose limit is
\* min(limit, max_search_limit), the limit being the default when the caller
\* gave none.
C8_OneEmbeddingOneQuery ==
  \A t \in Tasks :
    LET tr == task[t]
    IN /\ Len(tr.embedLog) <= 1 /\ Len(tr.storeLog) <= 1
       /\ tr.pc = "embedding"
            => Len(tr.embedLog) = 1 /\ tr.embedLog[1].texts = <<tr.query>>
       /\ (tr.pc = "done" /\ tr.outcome.kind = "ok" /\ ~tr.hit)
            => /\ Len(tr.embedLog) = 1 /\ Len(tr.storeLog) = 1
               /\ tr.embedLog[1].texts = <<tr.query>>
               /\ tr.storeLog[1].stage.numCandidates
                    = settings.vector_search_candidates
               /\ tr.storeLog[1].stage.limit
                    = Min(LimitOf(tr), settings.max_search_limit)

\* C8 witness: a search with a limit above max_search_limit has missed the
\* cache and returned
C8_Witness ==
  \E t \in Tasks :
    /\ task[t].pc = "done" /\ task[t].op = "search" /\ task[t].given
    /\ task[t].outcome.kind = "ok" /\ ~task[t].hit
    /\ task[t].limit > settings.max_search_limit
    /\ task[t].storeLog[1].stage.limit = settings.max_search_limit

C10_NoExpiredLinkServed ==
  [][\A u \in Tasks :
       /\ task'[u].hit => task'[u].age < settings.cache_ttl
       /\ ( /\ BeginsCall(u) /\ HasKey(cache, task'[u].cache_key)
            /\ now - Link(cache, task'[u].cache_key).at >= settings.cache_ttl )
          => /\ ~task'[u].hit
             /\ task'[u].pc = "embedding"
             /\ task'[u].embedLog = <<EmbedCall(settings, task'[u].query)>>
    ]_vars

\* C10 witness: a search is waiting for its embedding while the cache still
\* holds the expired link of its key
C10_Witness ==
  \E t \in Tasks :
    /\ task[t].pc = "embedding"
    /\ HasKey(cache, task[t].cache_key)
    /\ Link(cache, task[t].cache_key).expires <= now

\* the sequence a store query for (text, limit) returns in full
CompleteResult(query, limit) ==
  Aggregate(indexed, query, Min(limit, settings.max_search_limit))

\* C11: with callers interleaving at their suspension points (the indexed
\* documents being fixed), every link of the cache holds, under the key of one
\* (text, limit, model), the complete sequence the store returns for that
\* text and limit, no key has two links, and a call served from the cache got
\* the complete sequence for its own text and limit.
C11_CacheNeverCorrupted ==
  /\ \A i \in 1..Len(cache) :
       \E q \in Texts, l \in LimitArgs :
         /\ cache[i].key = generate_cache_key(settings, q, l)
         /\ cache[i].value = CompleteResult(q, l)
  /\ \A i, j \in 1..Len(cache) : cache[i].key = cache[j].key => i = j
  /\ \A t \in Tasks :
       (task[t].pc = "done" /\ task[t].hit)
       => /\ task[t].outcome.kind = "ok"
          /\ task[t].cache_key
               = generate_cache_key(settings, task[t].query, task[t].search_limit)
          /\ task[t].outcome.results
               = CompleteResult(task[t].query, task[t].search_limit)

\* C11 witness: two searches for one key both missed the cache; one of them
\* has written the link, a further search for the key has been served from
\* it, and the other is still waiting for its embedding
C11_Witness ==
  \E t, u \in Tasks :
    /\ t # u
    /\ task[t].pc = "embedding" /\ task[t].dirty
    /\ task[u].pc = "done" /\ task[u].hit
    /\ task[u].cache_key = task[t].cache_key
    /\ Len(task[u].outcome.results) >= 1

\* the event loop can run a step for caller u: start a call, or resume u
\* with the response of its embedding call
CanProgress(u) ==
  \/ CanCall(u)
  \/ Suspended(u)

\* C12: while a search is waiting for its embedding call or for its store
\* query, every other caller can make progress: a new call of it can start,
\* and its own embedding call, once answered, can be resumed.
C12_WaitingBlocksNobody ==
  \A t \in Tasks :
    task[t].pc \in {"embedding", "querying"}
    => \A u \in Tasks \ {t} : CanProgress(u)

\* C12, the state that refutes it: a search is inside its store query while
\* another search, whose embedding call was issued earlier, cannot be resumed
C12_Witness ==
  \E t, u \in Tasks :
    /\ task[t].pc = "querying" /\ task[u].pc = "embedding"
    /\ ~CanProgress(u)

\* C13: the service (store connection, embedding client, cache) is created
\* once: a step constructs a service only when there is none yet; and when a
\* request that missed the cache and returned is followed directly by a
\* request with the same text and limit while the link it wrote is within
\* its time-to-live, the second request is served from the cache and makes
\* no embedding call.
C13_ServiceCreatedOnce ==
  [][/\ service' = service \/ service = 0
     /\ \A t, u \in Tasks :
          ( /\ task[t].pc = "done" /\ task[t].outcome.kind = "ok"
            /\ task[t].writes = 1
            /\ BeginsCall(u)
            /\ task'[u].query = task[t].query
            /\ task'[u].search_limit = task[t].search_limit
            /\ HasKey(cache, task[t].cache_key)
            /\ now' - Link(cache, task[t].cache_key).at < settings.cache_ttl )
          => /\ task'[u].hit
             /\ task'[u].outcome = task[t].outcome
             /\ task'[u].embedLog = <<>>
    ]_vars

\* C13, the state that refutes it: a second service has been constructed,
\* nothing its cache could hold has expired, and the request it was
\* constructed for is calling the embedding provider
C13_Witness ==
  \E t \in Tasks :
    /\ service = 2 /\ now < settings.cache_ttl
    /\ task[t].pc = "embedding" /\ cache = <<>>

\* C14: when the presence test of a call's cache lookup finds the key (a link
\* of the key that has not expired at the time of the test), the call is
\* served from the cache: it ends at once, with the stored sequence and
\* without an error, whatever the time of the read that follows the test.
C14_HitPathNeverFails ==
  [][\A u \in Tasks :
       ( /\ BeginsCall(u) /\ task'[u].cache_key # <<>>
         /\ Contains(cache, task'[u].cache_key, now) )
       => /\ task'[u].pc = "done" /\ task'[u].hit
          /\ task'[u].outcome.kind = "ok"
          /\ task'[u].op = "search"
               => task'[u].outcome.results
                    = Link(cache, task'[u].cache_key).value
    ]_vars

\* C14, the state that refutes it: a search has ended with the KeyError of
\* the cache while the link of its key is still in the cache
C14_Witness ==
  \E t \in Tasks :
    /\ task[t].pc = "done" /\ task[t].outcome.exc = "KeyError"
    /\ HasKey(cache, task[t].cache_key)
    /\ task[t].embedLog = <<>>

\* C15: in every store query a call has issued, under every configuration
\* and for every limit, numCandidates is at least the limit of the query.
C15_CandidatesCoverLimit ==
  \A t \in Tasks :
    \A i \in 1..Len(task[t].storeLog) :
      task[t].storeLog[i].stage.numCandidates >= task[t].storeLog[i].stage.limit

\* C15, the state that refutes it: under a configuration whose
\* vector_search_candidates is below max_search_limit, a search with a limit
\* above it has issued its store query, and the store has rejected it
C15_Witness ==
  \E t \in Tasks :
    /\ settings.vector_search_candidates < settings.max_search_limit
    /\ task[t].pc = "done" /\ task[t].storeLog # <<>>
    /\ task[t].storeLog[1].stage.limit > settings.vector_search_candidates
    /\ task[t].storeLog[1].response = "raised"

\* C16: when find_similar_by_id(document_id, limit), with a limit from 0 to
\* max_search_limit, returns from a store query made while at least limit
\* documents other than document_id are indexed, it returns exactly limit
\* items.
C16_SimilarReturnsLimitItems ==
  [][\A t \in Tasks :
       ( /\ EndsCall(t) /\ task'[t].op = "find_similar_by_id"
         /\ task'[t].outcome.kind = "ok" /\ ~task'[t].hit
         /\ task'[t].limit >= 0
         /\ task'[t].limit <= settings.max_search_limit
         /\ Cardinality(indexed \ {task'[t].document_id}) >= task'[t].limit )
       => Len(task'[t].outcome.results) = task'[t].limit
    ]_vars

\* C16, the state that refutes it: find_similar_by_id was called with
\* limit = max_search_limit and has returned fewer than limit items from a
\* store query that returned the origin document, while limit other
\* documents are indexed
C16_Witness ==
  \E t \in Tasks :
    /\ task[t].pc = "done" /\ task[t].op = "find_similar_by_id"
    /\ task[t].outcome.kind = "ok" /\ ~task[t].hit
    /\ task[t].limit = settings.max_search_limit
    /\ Len(task[t].outcome.results) < task[t].limit
    /\ Cardinality(indexed \ {task[t].document_id}) >= task[t].limit
    /\ \E i \in 1..Len(Link(cache, task[t].cache_key).value) :
         Link(cache, task[t].cache_key).value[i].id = task[t].document_id

\* link e is in cache c, field for field
HoldsLink(c, e) == \E i \in 1..Len(c) : c[i] = e

\* C17: in every step, each link of the cache either was in the cache before
\* the step, field for field, or is the link the step wrote for the call
\* whose store query it ended: the full sequence the store returned, under
\* the key of that call.  A link that is gone after the step had expired,
\* was replaced by the written link of its key, or was evicted by a write
\* into the full cache.  So the filter and the cut of find_similar_by_id
\* change no link.
C17_NoLinkMutatedInPlace ==
  [][/\ \A i \in 1..Len(cache') :
          \/ HoldsLink(cache, cache'[i])
          \/ \E t \in Tasks :
               /\ EndsCall(t) /\ task'[t].writes = 1
               /\ cache'[i] =
                    [key |-> task'[t].cache_key,
                     value |-> Aggregate(indexed, task'[t].query,
                                         task'[t].storeLog[1].stage.limit),
                     expires |-> now' + settings.cache_ttl, at |-> now']
     /\ \A i \in 1..Len(cache) :
          \/ HoldsLink(cache', cache[i])
          \/ cache[i].expires <= now'
          \/ \E t \in Tasks :
               /\ EndsCall(t) /\ task'[t].writes = 1
               /\ \/ cache[i].key = task'[t].cache_key
                  \/ Len(cache') = CacheMaxSize
    ]_vars

\* C17 witness: find_similar_by_id has been served from the cache and has
\* returned a sequence without the origin document, shorter than the cached
\* one, and the link of its key still holds the origin document
C17_Witness ==
  \E t \in Tasks :
    /\ task[t].pc = "done" /\ task[t].op = "find_similar_by_id"
    /\ task[t].hit /\ task[t].outcome.kind = "ok"
    /\ HasKey(cache, task[t].cache_key)
    /\ LET cached == Link(cache, task[t].cache_key).value
       IN /\ Len(task[t].outcome.results) < Len(cached)
          /\ \E i \in 1..Len(cached) : cached[i].id = task[t].document_id
          /\ Len(cached) = task[t].limit + 1

\* C18: every store query a call has issued, begun by search or by
\* find_similar_by_id with any limit, carries a limit from 1 to
\* max_search_limit.
C18_QueryLimitInRange ==
  \A t \in Tasks :
    \A i \in 1..Len(task[t].storeLog) :
      /\ task[t].storeLog[i].stage.limit >= 1
      /\ task[t].storeLog[i].stage.limit <= settings.max_search_limit

\* C18, the state that refutes it: find_similar_by_id was called with the
\* limit -1, its store query went out with the limit 0, and the store has
\* rejected it
C18_Witness ==
  \E t \in Tasks :
    /\ task[t].pc = "done" /\ task[t].op = "find_similar_by_id"
    /\ task[t].limit = -1 /\ task[t].storeLog # <<>>
    /\ task[t].storeLog[1].stage.limit = 0
    /\ task[t].storeLog[1].response = "raised"

\* the failure of the specification's taxonomy a call ran into, read from
\* what happened during the call; "other" for a call outside the taxonomy
FailureKind(tr) ==
  IF tr.lookup = "None" THEN "NotFound"
  ELSE IF tr.lookup = "found" /\ ~ExtractReason(tr.document).raises
          /\ Falsy(ExtractReason(tr.document).reason)
  THEN "NoReasonText"
  ELSE IF tr.embedLog # <<>>
          /\ tr.embedLog[Len(tr.embedLog)].response \in {"raised", "empty"}
  THEN "ProviderError"
  ELSE IF tr.storeLog # <<>>
          /\ tr.storeLog[Len(tr.storeLog)].response = "raised"
  THEN "SearchBackendError"
  ELSE IF tr.cache_key # <<>> /\ voyage_client = "None"
  THEN "ConfigurationMissing"
  ELSE "other"

\* C19: when a call fails directly after a call that failed, and the two
\* failures are different failures of the taxonomy (ConfigurationMissing,
\* ProviderError, SearchBackendError, NotFound, NoReasonText), the two
\* callers get exceptions of different types.
C19_FailureKindsDistinct ==
  [][\A t, u \in Tasks :
       ( /\ task[t].pc = "done" /\ task[t].outcome.kind = "error"
         /\ EndsCall(u) /\ task'[u].outcome.kind = "error"
         /\ FailureKind(task[t]) # "other"
         /\ FailureKind(task'[u]) # "other"
         /\ FailureKind(task[t]) # FailureKind(task'[u]) )
       => task'[u].outcome.exc # task[t].outcome.exc
    ]_vars

\* C19, the state that refutes it: under a configuration without an API key,
\* where every search fails with the ValueError of the missing client, a
\* lookup of a document without reason text has failed with a ValueError
C19_Witness ==
  \E t \in Tasks :
    /\ voyage_client = "None"
    /\ task[t].pc = "done" /\ FailureKind(task[t]) = "NoReasonText"
    /\ task[t].outcome.exc = "ValueError"

====
